---------------------------- MODULE Spec2Model ----------------------------
(***************************************************************************)
(* A state-machine model of the shredder package:                          *)
(*   - Shredder (shredding.py): get_result, shred, _do_multiband_fit;       *)
(*   - ModelSubtractor (subtractor.py): construction, add_source,           *)
(*     object index ranges, postage stamps.                                 *)
(* Objects are records of their attributes and dicts are records of their   *)
(* keys, so hasattr(obj, a) is  a \in DOMAIN obj.  The EM fitters, the      *)
(* renderer and the coadd builder are external: a fitter is modelled by the *)
(* flags its result carries, drawn from FlagVals.                           *)
(***************************************************************************)
EXTENDS Integers, Sequences, FiniteSets, TLC

(* ------------------------------ bounds -------------------------------- *)
MaxBands == 2
MaxShreds == 1
NPix == 2
MaxObj == 2
MaxNGauss == 3
MaxPsfNGauss == 2
MaxDepth == 2
MaxDim == 4
MaxStamp == 5
MaxPixVal == 2

(* --------------------------- program constants ------------------------ *)
\* ngmix.em flag bits, imported by shredding.py
EM_RANGE_ERROR == 1
EM_MAXITER == 2
\* shredder.procflags bits (two distinct bits of the result's flags field)
COADD_FAILURE == 1
BAND_FAILURE == 2

VARIABLES
    shredder,      \* the Shredder object: its attributes (mbobs, _result / result)
    pc,            \* position inside shred(): "idle" or "multiband"
    band,          \* loop variable of _do_multiband_fit
    reslist,       \* local list of _do_multiband_fit
    fits_started,  \* number of _get_band_fit calls made by the current shred()
    nshred,        \* number of shred() calls that have returned
    getres,        \* outcome of the latest get_result() call
    sub,           \* the ModelSubtractor object: its attributes
    sub_status,    \* "none", "ok", or the exception its constructor raised
    scopes,        \* the open add_source scopes, innermost last
    lastop,        \* the latest ModelSubtractor operation and how it ended
    closed,        \* the add_source scope that closed last
    entered,       \* the latest attempt to enter an add_source scope
    flux_in,       \* arguments of get_flux: [im, wt, model]
    flux_out,      \* what the latest get_flux call returned
    image_shape,   \* <<rows, cols>> of every band image (postage stamps)
    obj_cen2,      \* pixel centre of the object, in half pixels: <<2*row, 2*col>>
    stamp          \* outcome of the latest get_object_mbobs() call

shred_vars == <<shredder, pc, band, reslist, fits_started, nshred, getres>>
sub_vars == <<sub, sub_status, scopes, lastop, closed, entered>>
stamp_vars == <<image_shape, obj_cen2, stamp>>
flux_vars == <<flux_in, flux_out>>
vars == <<shred_vars, sub_vars, stamp_vars, flux_vars>>

(* ------------------------------ helpers ------------------------------- *)
RECURSIVE BitAnd(_, _)
BitAnd(a, b) ==
    IF a = 0 \/ b = 0 THEN 0
    ELSE (a % 2) * (b % 2) + 2 * BitAnd(a \div 2, b \div 2)

RECURSIVE BitOr(_, _)
BitOr(a, b) ==
    IF a = 0 THEN b
    ELSE IF b = 0 THEN a
    ELSE (IF a % 2 = 1 \/ b % 2 = 1 THEN 1 ELSE 0) + 2 * BitOr(a \div 2, b \div 2)

HasAttr(obj, name) == name \in DOMAIN obj
SetAttr(obj, name, val) == (name :> val) @@ obj

\* every combination of the fitter's flag bits
FlagVals == 0 .. (EM_RANGE_ERROR + EM_MAXITER)

\* one band image of NPix pixels over background bg
BandImage(bg) == [j \in 1 .. NPix |-> bg + j]

(* ============================ Shredder ================================ *)

(* --------------------------- get_flux ---------------------------------- *)
(* numpy float64 values: a rational [t |-> "fin", n, d] in lowest terms,    *)
(* [t |-> "inf", s] for +-inf, [t |-> "nan"].  Arithmetic is exact, with     *)
(* IEEE's rules for inf and nan (numpy warns on x/0, it does not raise).     *)
(* [t |-> "e9", n] is n * 10^9 and [t |-> "sqrt", of] is np.sqrt(of);        *)
(* neither is computed with again.                                           *)

Abs(x) == IF x < 0 THEN -x ELSE x

RECURSIVE Gcd(_, _)
Gcd(a, b) == IF b = 0 THEN a ELSE Gcd(b, a % b)

Fin(n, d) ==
    LET g == Gcd(Abs(n), Abs(d))
        sg == IF d < 0 THEN -1 ELSE 1
    IN  [t |-> "fin", n |-> sg * (n \div g), d |-> sg * (d \div g)]
Inf(sgn) == [t |-> "inf", s |-> sgn]
NaN == [t |-> "nan"]
FromInt(i) == Fin(i, 1)

FSign(x) ==
    IF x.t = "inf" THEN x.s
    ELSE IF x.n > 0 THEN 1 ELSE IF x.n < 0 THEN -1 ELSE 0

FAdd(x, y) ==
    IF x.t = "nan" \/ y.t = "nan" THEN NaN
    ELSE IF x.t = "inf" /\ y.t = "inf" THEN (IF x.s = y.s THEN x ELSE NaN)
    ELSE IF x.t = "inf" THEN x
    ELSE IF y.t = "inf" THEN y
    ELSE Fin(x.n * y.d + y.n * x.d, x.d * y.d)

FNeg(x) ==
    IF x.t = "nan" THEN NaN
    ELSE IF x.t = "inf" THEN Inf(-x.s)
    ELSE Fin(-x.n, x.d)

FSub(x, y) == FAdd(x, FNeg(y))

FMul(x, y) ==
    IF x.t = "nan" \/ y.t = "nan" THEN NaN
    ELSE IF x.t = "inf" \/ y.t = "inf"
         THEN (IF FSign(x) * FSign(y) = 0 THEN NaN ELSE Inf(FSign(x) * FSign(y)))
    ELSE Fin(x.n * y.n, x.d * y.d)

FDiv(x, y) ==
    IF x.t = "nan" \/ y.t = "nan" THEN NaN
    ELSE IF x.t = "inf" /\ y.t = "inf" THEN NaN
    ELSE IF x.t = "inf" THEN Inf(IF FSign(y) < 0 THEN -x.s ELSE x.s)
    ELSE IF y.t = "inf" THEN FromInt(0)
    ELSE IF y.n = 0 THEN (IF x.n = 0 THEN NaN ELSE Inf(FSign(x)))
    ELSE Fin(x.n * y.d, x.d * y.n)

\* x == 0 and x >= 0.0: both False for nan
FIsZero(x) == x.t = "fin" /\ x.n = 0
FGeZero(x) == (x.t = "fin" /\ x.n >= 0) \/ (x.t = "inf" /\ x.s = 1)
FSqrt(x) == IF x.t = "inf" THEN x ELSE [t |-> "sqrt", of |-> x]

RECURSIVE FSumTo(_, _)
\* ndarray.sum(): f[1] + ... + f[n]
FSumTo(f, n) == IF n = 0 THEN FromInt(0) ELSE FAdd(FSumTo(f, n - 1), f[n])

\* get_flux, lines 234-235: the values flux and flux_err start from, in
\* units of 10^9
FluxSentinel == -9999
FluxErrSentinel == 1

\* get_flux(im, wt, model_in), lines 234-264; im, wt and model_in are
\* sequences of integer pixel values
GetFlux(im, wt, model_in) ==
    LET n     == Len(im)
        sentinel_flux == [t |-> "e9", n |-> FluxSentinel]
        sentinel_err  == [t |-> "e9", n |-> FluxErrSentinel]
        \* pass 1: model *= 1.0/model.sum()
        msum  == FSumTo([j \in 1 .. n |-> FromInt(model_in[j])], n)
        model1 == [j \in 1 .. n |-> FMul(FromInt(model_in[j]), FDiv(FromInt(1), msum))]
        xcorr_sum == FSumTo([j \in 1 .. n |->
                        FMul(FMul(model1[j], FromInt(im[j])), FromInt(wt[j]))], n)
        msq_sum == FSumTo([j \in 1 .. n |->
                        FMul(FMul(model1[j], model1[j]), FromInt(wt[j]))], n)
    IN  IF FIsZero(msq_sum)
        THEN \* break in pass 1; "cannot calculate err"
             [flux |-> sentinel_flux, flux_err |-> sentinel_err]
        ELSE LET flux == FDiv(xcorr_sum, msq_sum)
                 \* pass 2: model *= flux
                 model2 == [j \in 1 .. n |-> FMul(model1[j], flux)]
                 chi2 == FSumTo([j \in 1 .. n |->
                            LET df == FSub(model2[j], FromInt(im[j]))
                            IN  FMul(FMul(df, df), FromInt(wt[j]))], n)
                 arg == FDiv(FDiv(chi2, msq_sum), FromInt(n - 1))
             IN  [flux |-> flux,
                  flux_err |-> IF FGeZero(arg) THEN FSqrt(arg) ELSE sentinel_err]

\* obs.weight of a band: every pixel weighted (w = 1) or every pixel masked
\* (w = 0)
BandWeight(w) == [j \in 1 .. NPix |-> w]

\* bim, the band's fitted mixture rendered over the band's pixels
BandModelImage == [j \in 1 .. NPix |-> 1]

\* _set_band_flux_and_gmix, lines 188-192: get_flux(obs.image, obs.weight,
\* bim) for a band, whose image is BandImage(0), by the band's weight
BandFlux == [w \in 0 .. 1 |-> GetFlux(BandImage(0), BandWeight(w), BandModelImage)]

NBands == Len(shredder.mbobs)

\* get_result without its hasattr test: reading self._result raises
\* AttributeError when shred() has not run
GetResult_NoCheck ==
    /\ pc = "idle"
    /\ getres' = IF HasAttr(shredder, "_result")
                 THEN [outcome |-> "returned", after |-> nshred,
                       value |-> shredder._result]
                 ELSE [outcome |-> "AttributeError", after |-> nshred]
    /\ UNCHANGED <<shredder, pc, band, reslist, fits_started, nshred>>
    /\ UNCHANGED <<sub_vars, stamp_vars, flux_vars>>

\* get_result: hasattr(self, '_result') or RuntimeError
GetResult ==
    /\ pc = "idle"
    /\ getres' = IF ~HasAttr(shredder, "_result")
                 THEN [outcome |-> "RuntimeError", after |-> nshred]
                 ELSE [outcome |-> "returned", after |-> nshred,
                       value |-> shredder._result]
    /\ UNCHANGED <<shredder, pc, band, reslist, fits_started, nshred>>
    /\ UNCHANGED <<sub_vars, stamp_vars, flux_vars>>

\* shred, line 88:  cres['flags'] != 0 and cres['flags'] & EM_MAXITER == 0
\* (Python: & binds tighter than ==)
CoaddCannotProceed(flags) == flags # 0 /\ BitAnd(flags, EM_MAXITER) = 0

\* _do_multiband_fit, line 138: the same test on the band fit's flags
BandCannotProceed(flags) == flags # 0 /\ BitAnd(flags, EM_MAXITER) = 0

\* shred, lines 79-86: the fresh result dict.  Line 86 is the comparison
\*   res['flags'] != cres['flags']
\* whose value is discarded, so flags stays 0.
NewResult(cres) == [flags |-> 0, coadd_result |-> cres]

\* the failure branch without its else: the flag is set and the per-band
\* stage runs all the same
ShredStop_FallThrough(res) ==
    /\ shredder' = SetAttr(shredder, "_result",
                      [res EXCEPT !.flags = BitOr(res.flags, COADD_FAILURE),
                                  !.coadd_result =
                                      SetAttr(res.coadd_result, "gmix", "coadd_gmix")])
    /\ pc' = "multiband"
    /\ band' = 0
    /\ reslist' = << >>
    /\ UNCHANGED nshred

\* shred, lines 88-90: the failure branch ends shred()
ShredStop(res) ==
    /\ shredder' = SetAttr(shredder, "_result",
                      [res EXCEPT !.flags = BitOr(res.flags, COADD_FAILURE)])
    /\ pc' = "idle"
    /\ nshred' = nshred + 1
    /\ UNCHANGED <<band, reslist>>

\* shred, lines 91-94: store the coadd mixture and enter _do_multiband_fit
ShredProceed(res) ==
    /\ shredder' = SetAttr(shredder, "_result",
                      [res EXCEPT !.coadd_result =
                                      SetAttr(res.coadd_result, "gmix", "coadd_gmix")])
    /\ pc' = "multiband"
    /\ band' = 0
    /\ reslist' = << >>
    /\ UNCHANGED nshred

\* shred(gmix_guess): the coadd fit ends with flags cflags
Shred(cflags) ==
    /\ pc = "idle"
    /\ nshred < MaxShreds
    /\ fits_started' = 0
    /\ LET res == NewResult([flags |-> cflags, sky |-> "sky"])
       IN  IF CoaddCannotProceed(cflags)
           THEN ShredStop(res)
           ELSE ShredProceed(res)
    /\ UNCHANGED <<getres, sub_vars, stamp_vars, flux_vars>>

\* _set_band_flux_and_gmix, lines 178-199
SetBandFluxAndGmix(bres, fl) ==
    SetAttr(SetAttr(SetAttr(bres, "gmix", "band_gmix"),
                    "total_flux", fl.flux),
            "total_flux_err", fl.flux)

\* the append moved into the else branch: a failed band leaves no entry
AppendBandResult_SkipFailed(lst, bflags, bres) ==
    IF BandCannotProceed(bflags) THEN lst ELSE Append(lst, bres)

\* _do_multiband_fit, line 144: reslist.append(bres)
AppendBandResult(lst, bflags, bres) == Append(lst, bres)

\* one iteration of the loop of _do_multiband_fit on band number `band`;
\* the last iteration also runs line 146 and returns from shred().
\* A band result carries `band`, the band whose observation was fitted; w
\* says whether the band's pixels are weighted or masked.
BandFit(bflags, w) ==
    /\ pc = "multiband"
    /\ band < NBands
    /\ fits_started' = fits_started + 1
    /\ LET res    == shredder._result
           args   == [im |-> shredder.mbobs[band + 1], wt |-> BandWeight(w),
                      model |-> BandModelImage]
           fl     == BandFlux[w]
           raw    == [flags |-> bflags, band |-> band]
           failed == BandCannotProceed(bflags)
           bres   == IF failed THEN raw ELSE SetBandFluxAndGmix(raw, fl)
           flags2 == IF failed THEN BitOr(res.flags, BAND_FAILURE) ELSE res.flags
           lst    == AppendBandResult(reslist, bflags, bres)
           last   == band + 1 = NBands
           res2   == [res EXCEPT !.flags = flags2]
       IN  /\ reslist' = lst
           /\ band' = band + 1
           /\ shredder' = SetAttr(shredder, "_result",
                             IF last THEN SetAttr(res2, "band_results", lst)
                             ELSE res2)
           /\ pc' = IF last THEN "idle" ELSE "multiband"
           /\ nshred' = IF last THEN nshred + 1 ELSE nshred
           /\ flux_in' = IF failed THEN flux_in ELSE args
           /\ flux_out' = IF failed THEN flux_out
                          ELSE [called |-> TRUE, ret |-> fl]
    /\ UNCHANGED <<getres, sub_vars, stamp_vars>>

(* ========================== ModelSubtractor =========================== *)
(* A mixture is the sequence of its components' data; a component is        *)
(* [p |-> amplitude, cen |-> the pixel its centre falls on].  An image is   *)
(* the sequence of its NPix pixel values (integers: the arithmetic of       *)
(* add_source is exact here, where numpy's is exact to rounding).           *)

RECURSIVE SumTo(_, _)
\* f[1] + ... + f[n]
SumTo(f, n) == IF n = 0 THEN 0 ELSE f[n] + SumTo(f, n - 1)

Min(a, b) == IF a < b THEN a ELSE b
Max(a, b) == IF a > b THEN a ELSE b

\* Python's seq[start:end] for 0 <= start: the items at 0-based positions
\* start .. min(end, len) - 1
PySlice(seq, start, end) ==
    LET stop == Min(end, Len(seq))
        n    == Max(stop - start, 0)
    IN  [k \in 1 .. n |-> seq[start + k]]

\* get_object_index_range / get_object_index_range_convolved
GetObjectIndexRange(s, index) ==
    <<s.ngauss_per * index, s.ngauss_per * (index + 1)>>

GetObjectIndexRangeConvolved(s, index) ==
    <<s.ngauss_per_convolved * index, s.ngauss_per_convolved * (index + 1)>>

\* get_object_gmix_data / get_object_gmix_data_convolved (b is 1-based)
GetObjectGmixData(s, index, b) ==
    LET r == GetObjectIndexRange(s, index)
    IN  PySlice(shredder.result.band_gmix[b], r[1], r[2])

GetObjectGmixDataConvolved(s, index, b) ==
    LET r == GetObjectIndexRangeConvolved(s, index)
    IN  PySlice(shredder.result.band_gmix_convolved[b], r[1], r[2])

\* ngmix render: every component adds its light to every pixel, most of it
\* to the pixel under its centre
Render(gm) ==
    [j \in 1 .. NPix |->
        SumTo([k \in 1 .. Len(gm) |->
                  gm[k].p * (IF gm[k].cen = j THEN 2 ELSE 1)], Len(gm))]

\* _set_ngauss_per, line 269: the one divisibility test made
NgaussNotDivisible(res, n) == Len(res.band_gmix_convolved[1]) % n # 0

\* _set_ngauss_per, lines 272-276
SetNgaussPer(res, n) ==
    [nobj |-> n,
     ngauss_convolved |-> Len(res.band_gmix_convolved[1]),
     ngauss_per_convolved |-> Len(res.band_gmix_convolved[1]) \div n,
     ngauss |-> Len(res.band_gmix[1]),
     ngauss_per |-> Len(res.band_gmix[1]) \div n]

\* _build_models: one model image per object per band
BuildModels(s) ==
    [b \in 1 .. Len(shredder.mbobs) |->
        [i \in 1 .. s.nobj |-> Render(GetObjectGmixDataConvolved(s, i - 1, b))]]

\* the subtraction loop stopping one model image short
BuildSubtractedMbobs_SkipLast(mbobs_orig, model_images) ==
    [b \in 1 .. Len(mbobs_orig) |->
        [j \in 1 .. NPix |->
            mbobs_orig[b][j]
              - SumTo([i \in 1 .. Len(model_images[b]) |-> model_images[b][i][j]],
                      Len(model_images[b]) - 1)]]

\* _build_subtracted_mbobs: copy of each band image minus every model image
BuildSubtractedMbobs(mbobs_orig, model_images) ==
    [b \in 1 .. Len(mbobs_orig) |->
        [j \in 1 .. NPix |->
            mbobs_orig[b][j]
              - SumTo([i \in 1 .. Len(model_images[b]) |-> model_images[b][i][j]],
                      Len(model_images[b]))]]

\* Python's lst[index]: a negative index counts from the end
PyIndex(lst, index) ==
    IF index < 0 THEN lst[Len(lst) + index + 1] ELSE lst[index + 1]

\* _add_or_subtract_model_image(index, type), every band
AddOrSubtractModelImage(mbobs, model_images, index, type) ==
    [b \in 1 .. Len(mbobs) |->
        [j \in 1 .. NPix |->
            IF type = "add"
            THEN mbobs[b][j] + PyIndex(model_images[b], index)[j]
            ELSE mbobs[b][j] - PyIndex(model_images[b], index)[j]]]

\* ModelSubtractor.__init__(shredder, nobj)
Construct(n) ==
    /\ sub_status = "none"
    /\ IF ~HasAttr(shredder, "result")
       THEN /\ sub_status' = "AttributeError"
            /\ sub' = [nobj |-> n]
       ELSE IF NgaussNotDivisible(shredder.result, n)
       THEN /\ sub_status' = "ValueError"
            /\ sub' = [nobj |-> n]
       ELSE LET s1 == SetNgaussPer(shredder.result, n)
                mi == BuildModels(s1)
            IN  /\ sub_status' = "ok"
                /\ sub' = SetAttr(SetAttr(s1, "model_images", mi), "mbobs",
                                  BuildSubtractedMbobs(shredder.mbobs, mi))
    /\ lastop' = "construct"
    /\ UNCHANGED <<scopes, closed, entered, shred_vars, stamp_vars, flux_vars>>

\* the range test without its lower bound
IndexOutOfRange_NoLowerBound(index, nobj) == index > nobj - 1

\* add_source, lines 47-48: imax = self.nobj - 1; index < 0 or index > imax
IndexOutOfRange(index, nobj) == index < 0 \/ index > nobj - 1

\* add_source(index), lines 47-51: up to the yield
AddSourceEnter(index) ==
    /\ sub_status = "ok"
    /\ Len(scopes) < MaxDepth
    /\ IF IndexOutOfRange(index, sub.nobj)
       THEN /\ lastop' = "IndexError"
            /\ entered' = [outcome |-> "IndexError", index |-> index,
                           before |-> sub.mbobs]
            /\ UNCHANGED <<sub, scopes>>
       ELSE /\ lastop' = "enter"
            /\ entered' = [outcome |-> "entered", index |-> index,
                           before |-> sub.mbobs]
            /\ sub' = [sub EXCEPT !.mbobs =
                          AddOrSubtractModelImage(sub.mbobs, sub.model_images,
                                                  index, "add")]
            /\ scopes' = Append(scopes, [index |-> index, before |-> sub.mbobs])
    /\ UNCHANGED <<sub_status, closed, shred_vars, stamp_vars, flux_vars>>

\* the subtraction placed after the yield without try/finally: an exception
\* in the body skips it
ImagesAfterBody_NoFinally(how, mbobs, model_images, index) ==
    IF how = "exception" THEN mbobs
    ELSE AddOrSubtractModelImage(mbobs, model_images, index, "subtract")

\* add_source, lines 53-57: what the images are once the body has ended;
\* how is "normal", "early" (return/break in the body) or "exception"
ImagesAfterBody(how, mbobs, model_images, index) ==
    AddOrSubtractModelImage(mbobs, model_images, index, "subtract")

\* the body of the innermost open scope ends
AddSourceExit(how) ==
    /\ sub_status = "ok"
    /\ scopes # << >>
    /\ LET top == scopes[Len(scopes)]
       IN  /\ sub' = [sub EXCEPT !.mbobs =
                         ImagesAfterBody(how, sub.mbobs, sub.model_images, top.index)]
           /\ closed' = [how |-> how, index |-> top.index, before |-> top.before]
    /\ scopes' = SubSeq(scopes, 1, Len(scopes) - 1)
    /\ lastop' = "exit"
    /\ UNCHANGED <<sub_status, entered, shred_vars, stamp_vars, flux_vars>>

\* no ModelSubtractor has been built
NoSubtractor ==
    /\ sub = [nobj |-> 0]
    /\ sub_status = "none"
    /\ scopes = << >>
    /\ lastop = "none"
    /\ closed = [how |-> "none"]
    /\ entered = [outcome |-> "none"]

\* no postage stamp has been asked for
NoStamp ==
    /\ image_shape = <<1, 1>>
    /\ obj_cen2 = <<0, 0>>
    /\ stamp = [status |-> "none"]
    /\ flux_in = [im |-> << >>, wt |-> << >>, model |-> << >>]
    /\ flux_out = [called |-> FALSE]

\* the mixtures of a deblend of ngauss components seen through a PSF of npsf
\* components: amplitudes scale with the band's flux; the convolved mixture
\* holds npsf components per pre-PSF component, in the same order
PrePsfGmix(ngauss, scale) ==
    [c \in 1 .. ngauss |-> [p |-> scale * c, cen |-> ((c - 1) % NPix) + 1]]

ConvolvedGmix(ngauss, npsf, scale) ==
    [k \in 1 .. ngauss * npsf |-> PrePsfGmix(ngauss, scale)[((k - 1) \div npsf) + 1]]

\* a deblended object handed to ModelSubtractor: mbobs and a result holding
\* band_gmix and band_gmix_convolved
InitDeblended ==
    /\ \E n \in 1 .. MaxBands, ngauss \in 1 .. MaxNGauss, npsf \in 1 .. MaxPsfNGauss :
         \E scale \in [1 .. n -> 1 .. 2] :
           shredder =
             [mbobs |-> [b \in 1 .. n |-> BandImage(10 * b)],
              result |->
                [band_gmix |-> [b \in 1 .. n |-> PrePsfGmix(ngauss, scale[b])],
                 band_gmix_convolved |->
                     [b \in 1 .. n |-> ConvolvedGmix(ngauss, npsf, scale[b])]]]
    /\ pc = "idle"
    /\ band = 0
    /\ reslist = << >>
    /\ fits_started = 0
    /\ nshred = 0
    /\ getres = [outcome |-> "none", after |-> 0]
    /\ NoSubtractor
    /\ NoStamp

NextSub ==
    \/ \E n \in 1 .. MaxObj : Construct(n)
    \/ \E index \in -1 .. MaxObj : AddSourceEnter(index)
    \/ \E how \in {"normal", "early", "exception"} : AddSourceExit(how)

(* ========================= postage stamps ============================= *)
(* Centres are carried in half pixels (row2 = 2 * row), so that int(row)    *)
(* has a fractional part to drop.                                           *)

\* Python's int(x) for x = h2 / 2: truncation towards zero
IntTrunc(h2) == IF h2 >= 0 THEN h2 \div 2 ELSE -((-h2) \div 2)

\* numpy's a[start:stop] along an axis of length dim: the indices kept
NumpySliceIndices(start, stop, dim) ==
    LET norm(i) == IF i < 0 THEN Max(i + dim, 0) ELSE Min(i, dim)
    IN  {k \in 0 .. dim - 1 : norm(start) <= k /\ k < norm(stop)}

\* _get_start_end, line 346: the test that raises IndexError
StartEndRaises(image_dim, cen, rad) ==
    LET start == cen - rad
    IN  start < 0 \/ start > image_dim

\* _get_start_end, lines 343-344 and 352
GetStartEnd(image_dim, cen, rad) == <<cen - rad, cen + rad + 1>>

\* _get_bbox raises when either axis does
BboxRaises(shape, row2, col2, stamp_size) ==
    \/ StartEndRaises(shape[1], IntTrunc(row2), stamp_size \div 2)
    \/ StartEndRaises(shape[2], IntTrunc(col2), stamp_size \div 2)

\* _get_bbox: <<row_start, row_end, col_start, col_end>>
GetBbox(shape, row2, col2, stamp_size) ==
    LET rad == stamp_size \div 2
        r   == GetStartEnd(shape[1], IntTrunc(row2), rad)
        c   == GetStartEnd(shape[2], IntTrunc(col2), rad)
    IN  <<r[1], r[2], c[1], c[2]>>

\* get_object_mbobs(index, stamp_size) for the object whose mixture centre
\* get_rowcol maps to pixel obj_cen2 / 2
GetObjectMbobs(stamp_size) ==
    /\ stamp' =
         LET row2 == obj_cen2[1]
             col2 == obj_cen2[2]
         IN
         IF BboxRaises(image_shape, row2, col2, stamp_size)
         THEN [status |-> "IndexError", row2 |-> row2, col2 |-> col2,
               stamp_size |-> stamp_size]
         ELSE LET bb == GetBbox(image_shape, row2, col2, stamp_size)
                  rows == NumpySliceIndices(bb[1], bb[2], image_shape[1])
                  cols == NumpySliceIndices(bb[3], bb[4], image_shape[2])
              IN  [status |-> "returned", row2 |-> row2, col2 |-> col2,
                   stamp_size |-> stamp_size,
                   bbox |-> bb,
                   jacobian_cen2 |-> <<row2 - 2 * bb[1], col2 - 2 * bb[3]>>,
                   bands |-> [b \in 1 .. NBands |->
                                 [image  |-> [rows |-> rows, cols |-> cols],
                                  weight |-> [rows |-> rows, cols |-> cols]]]]
    /\ UNCHANGED <<image_shape, obj_cen2, shred_vars, sub_vars, flux_vars>>

\* a subtractor over images of some shape, before any stamp is asked for
InitStamp ==
    /\ \E n \in 1 .. MaxBands :
           shredder = [mbobs |-> [b \in 1 .. n |-> BandImage(0)]]
    /\ pc = "idle"
    /\ band = 0
    /\ reslist = << >>
    /\ fits_started = 0
    /\ nshred = 0
    /\ getres = [outcome |-> "none", after |-> 0]
    /\ NoSubtractor
    /\ \E nr \in 1 .. MaxDim, nc \in 1 .. MaxDim : image_shape = <<nr, nc>>
    /\ \E row2 \in -2 .. 2 * MaxDim + 2, col2 \in -2 .. 2 * MaxDim + 2 :
           obj_cen2 = <<row2, col2>>
    /\ stamp = [status |-> "none"]
    /\ flux_in = [im |-> << >>, wt |-> << >>, model |-> << >>]
    /\ flux_out = [called |-> FALSE]

NextStamp ==
    \E stamp_size \in 0 .. MaxStamp : GetObjectMbobs(stamp_size)

\* get_flux(im, wt, model) on the arguments held in flux_in
GetFluxCall ==
    /\ ~flux_out.called
    /\ flux_out' = [called |-> TRUE,
                    ret |-> GetFlux(flux_in.im, flux_in.wt, flux_in.model)]
    /\ UNCHANGED <<flux_in, shred_vars, sub_vars, stamp_vars>>

\* a data image, a weight map and a template of NPix pixels each
InitFlux ==
    /\ shredder = [mbobs |-> <<BandImage(0)>>]
    /\ pc = "idle"
    /\ band = 0
    /\ reslist = << >>
    /\ fits_started = 0
    /\ nshred = 0
    /\ getres = [outcome |-> "none", after |-> 0]
    /\ NoSubtractor
    /\ image_shape = <<1, 1>>
    /\ obj_cen2 = <<0, 0>>
    /\ stamp = [status |-> "none"]
    /\ \E im \in [1 .. NPix -> 0 .. MaxPixVal], wt \in [1 .. NPix -> 0 .. 1],
          model \in [1 .. NPix -> 0 .. MaxPixVal] :
           flux_in = [im |-> im, wt |-> wt, model |-> model]
    /\ flux_out = [called |-> FALSE]

NextFlux == GetFluxCall

\* Shredder.__init__: mbobs stored, no _result attribute yet
InitShredder ==
    /\ \E n \in 1 .. MaxBands :
           shredder = [mbobs |-> [b \in 1 .. n |-> BandImage(0)]]
    /\ pc = "idle"
    /\ band = 0
    /\ reslist = << >>
    /\ fits_started = 0
    /\ nshred = 0
    /\ getres = [outcome |-> "none", after |-> 0]
    /\ NoSubtractor
    /\ NoStamp

NextShredder ==
    \/ GetResult
    \/ \E cflags \in FlagVals : Shred(cflags)
    \/ \E bflags \in FlagVals : \E w \in 0 .. 1 : BandFit(bflags, w)

\* shred() has returned and every band was calibrated by
\* _set_band_flux_and_gmix
ShredCompleteAllCalibrated ==
    /\ pc = "idle"
    /\ HasAttr(shredder, "_result")
    /\ HasAttr(shredder._result, "band_results")
    /\ \A k \in 1 .. Len(shredder._result.band_results) :
           /\ HasAttr(shredder._result.band_results[k], "gmix")
           /\ HasAttr(shredder._result.band_results[k], "total_flux")

\* ModelSubtractor(shredder, n) on a Shredder whose shred() has completed
ConstructFromShredder(n) ==
    /\ ShredCompleteAllCalibrated
    /\ Construct(n)

NextDeblend ==
    \/ GetResult
    \/ \E cflags \in FlagVals : Shred(cflags)
    \/ \E bflags \in FlagVals : \E w \in 0 .. 1 : BandFit(bflags, w)
    \/ \E n \in 1 .. MaxObj : ConstructFromShredder(n)

SpecDeblend == InitShredder /\ [][NextDeblend]_vars

Spec == InitShredder /\ [][NextShredder]_vars

SpecSub == InitDeblended /\ [][NextSub]_vars

SpecStamp == InitStamp /\ [][NextStamp]_vars

SpecFlux == InitFlux /\ [][NextFlux]_vars

(* ====================== properties of the Shredder ===================== *)

HasResult == HasAttr(shredder, "_result")
FlagSet(flags, bit) == BitAnd(flags, bit) # 0
\* flags that are nonzero and are not exactly the max-iterations flag
NotSolelyMaxiter(flags) == flags # 0 /\ flags # EM_MAXITER
Calibrated(bres) ==
    HasAttr(bres, "total_flux") \/ HasAttr(bres, "total_flux_err")
        \/ HasAttr(bres, "gmix")

\* C1: after shred() has returned, the result carries COADD_FAILURE and
\* per-band refinement was skipped exactly when the coadd flags are nonzero
\* and not solely EM_MAXITER; otherwise the coadd mixture is stored and
\* per-band refinement ran.
C1_CoaddFailureIffNotSolelyMaxiter ==
    (pc = "idle" /\ HasResult) =>
        LET res == shredder._result
            cflags == res.coadd_result.flags
        IN  IF NotSolelyMaxiter(cflags)
            THEN /\ FlagSet(res.flags, COADD_FAILURE)
                 /\ fits_started = 0
                 /\ ~HasAttr(res, "band_results")
            ELSE /\ ~FlagSet(res.flags, COADD_FAILURE)
                 /\ HasAttr(res.coadd_result, "gmix")
                 /\ fits_started = NBands
                 /\ HasAttr(res, "band_results")

\* C2: after a shred() run without COADD_FAILURE, band_results has exactly
\* one entry per band and entry k is the result of band k, whichever bands
\* failed.
C2_BandResultsOnePerBandInOrder ==
    (pc = "idle" /\ HasResult /\ ~FlagSet(shredder._result.flags, COADD_FAILURE)) =>
        /\ HasAttr(shredder._result, "band_results")
        /\ Len(shredder._result.band_results) = NBands
        /\ \A k \in 1 .. NBands :
               shredder._result.band_results[k].band = k - 1

\* C2 witness: a two-band run whose first band failed and whose second band
\* was calibrated
C2_Witness ==
    /\ pc = "idle" /\ HasResult /\ NBands = 2
    /\ HasAttr(shredder._result, "band_results")
    /\ Len(shredder._result.band_results) = 2
    /\ shredder._result.band_results[1].flags = EM_RANGE_ERROR
    /\ Calibrated(shredder._result.band_results[2])

\* C3: whenever COADD_FAILURE is set in the result's flags, no per-band fit
\* was started and the result has no band_results.
C3_CoaddFailureNoBandResults ==
    (HasResult /\ FlagSet(shredder._result.flags, COADD_FAILURE)) =>
        /\ fits_started = 0
        /\ ~HasAttr(shredder._result, "band_results")

\* C3 witness: shred() has returned with COADD_FAILURE set
C3_Witness ==
    /\ pc = "idle" /\ nshred >= 1 /\ HasResult
    /\ FlagSet(shredder._result.flags, COADD_FAILURE)
    /\ shredder._result.coadd_result.flags = EM_RANGE_ERROR

\* C4: after per-band refinement, every band whose flags are nonzero and not
\* solely EM_MAXITER has BAND_FAILURE ORed into the aggregate flags and its
\* raw, uncalibrated result recorded; the bands after it are still fitted;
\* BAND_FAILURE is set only if some band failed that way.
C4_BandFailureIffNotSolelyMaxiter ==
    (pc = "idle" /\ HasResult /\ HasAttr(shredder._result, "band_results")) =>
        LET res == shredder._result
            brs == res.band_results
        IN  /\ Len(brs) = NBands
            /\ \A k \in 1 .. Len(brs) :
                   NotSolelyMaxiter(brs[k].flags) =>
                       FlagSet(res.flags, BAND_FAILURE) /\ ~Calibrated(brs[k])
            /\ FlagSet(res.flags, BAND_FAILURE) =>
                   \E k \in 1 .. Len(brs) : NotSolelyMaxiter(brs[k].flags)

\* C5: get_result() fails with RuntimeError when no shred() has run on the
\* Shredder, and returns the stored result record when called after a shred()
\* has returned.
C5_GetResultNeedsShred ==
    getres.outcome # "none" =>
        /\ getres.after = 0 => getres.outcome = "RuntimeError"
        /\ getres.after > 0 =>
               /\ getres.outcome = "returned"
               /\ (pc = "idle" /\ nshred = getres.after) =>
                      getres.value = shredder._result

\* C5 witness: get_result() returned the record of a completed shred()
C5_Witness ==
    /\ getres.outcome = "returned"
    /\ getres.after >= 1
    /\ HasAttr(getres.value, "band_results")

(* =================== properties of the ModelSubtractor ================= *)

\* C6: once an add_source scope has closed, however its body ended, every
\* band's image equals what it was just before the scope opened; while a
\* scope is open every band's image is the image from before it opened plus
\* the model image of the scope's object.
C6_ScopedRestoration ==
    sub_status = "ok" =>
        /\ lastop = "exit" => sub.mbobs = closed.before
        /\ scopes # << >> =>
               LET top == scopes[Len(scopes)]
               IN  \A b \in 1 .. Len(sub.mbobs) : \A j \in 1 .. NPix :
                       sub.mbobs[b][j] =
                           top.before[b][j] + sub.model_images[b][top.index + 1][j]

\* C6 witness: a scope on an object with light in it was closed by an
\* exception raised in its body
C6_Witness ==
    /\ sub_status = "ok" /\ lastop = "exit" /\ scopes = << >>
    /\ closed.how = "exception"
    /\ \A b \in 1 .. Len(sub.mbobs) :
           \E j \in 1 .. NPix : sub.model_images[b][closed.index + 1][j] > 0

\* C7: construction raises whenever the pre-PSF component count or the
\* PSF-convolved component count is not divisible by the object count.
C7_ConstructionRejectsNonDivisible ==
    (sub_status # "none" /\ HasAttr(shredder, "result")) =>
        LET ngauss == Len(shredder.result.band_gmix[1])
            ngauss_convolved == Len(shredder.result.band_gmix_convolved[1])
        IN  (ngauss % sub.nobj # 0 \/ ngauss_convolved % sub.nobj # 0)
                => sub_status = "ValueError"

IndexSet(r) == r[1] .. r[2] - 1
\* the ranges of objects 0 .. n-1 are pairwise disjoint and cover 0 .. G-1
PartitionsMixture(ranges, n, G) ==
    /\ \A i1, i2 \in 0 .. n - 1 :
           i1 # i2 => IndexSet(ranges[i1]) \cap IndexSet(ranges[i2]) = {}
    /\ UNION {IndexSet(ranges[i]) : i \in 0 .. n - 1} = 0 .. G - 1

\* C8: for every constructed ModelSubtractor the object index ranges of the
\* pre-PSF mixture and of the convolved mixture are pairwise disjoint and
\* cover the whole mixture.
C8_IndexRangesPartition ==
    sub_status = "ok" =>
        /\ PartitionsMixture([i \in 0 .. sub.nobj - 1 |-> GetObjectIndexRange(sub, i)],
                             sub.nobj, Len(shredder.result.band_gmix[1]))
        /\ PartitionsMixture([i \in 0 .. sub.nobj - 1 |->
                                  GetObjectIndexRangeConvolved(sub, i)],
                             sub.nobj, Len(shredder.result.band_gmix_convolved[1]))

\* C11: with no add_source scope open, every band's subtracted image is the
\* original image minus the sum of the band's per-object model images, at
\* construction and after any sequence of completed scopes; adding the model
\* images back gives the original.
C11_SubtractedPlusModelsIsOriginal ==
    (sub_status = "ok" /\ scopes = << >>) =>
        /\ Len(sub.mbobs) = Len(shredder.mbobs)
        /\ \A b \in 1 .. Len(sub.mbobs) :
               /\ Len(sub.model_images[b]) = sub.nobj
               /\ \A j \in 1 .. NPix :
                      sub.mbobs[b][j]
                        + SumTo([i \in 1 .. sub.nobj |-> sub.model_images[b][i][j]],
                                sub.nobj)
                        = shredder.mbobs[b][j]

\* C11 witness: two objects, and a scope has been opened and closed
C11_Witness ==
    /\ sub_status = "ok" /\ scopes = << >> /\ lastop = "exit"
    /\ sub.nobj >= 2
    /\ sub.mbobs # shredder.mbobs

\* C12: entering add_source with an index outside [0, nobj) raises
\* IndexError, and no index inside does; right after the failed call every
\* band's image is what it was before it.
C12_BadIndexRaisesBeforeWrite ==
    (sub_status = "ok" /\ entered.outcome # "none") =>
        /\ (entered.index < 0 \/ entered.index >= sub.nobj)
               <=> entered.outcome = "IndexError"
        /\ lastop = "IndexError" => sub.mbobs = entered.before

\* C12 witness: a negative index was refused while another scope was open
C12_Witness ==
    /\ sub_status = "ok" /\ lastop = "IndexError"
    /\ entered.index = -1
    /\ scopes # << >>

(* ====================== properties of postage stamps =================== *)

\* the window [cen - rad, cen + rad + 1) lies inside [0, dim)
WindowInside(dim, cen, rad) == cen - rad >= 0 /\ cen + rad + 1 <= dim

\* C9: for an integer centre, a window that is not inside the image in
\* either axis makes get_object_mbobs raise IndexError.
C9_OutOfBoundsWindowRaises ==
    (stamp.status # "none" /\ stamp.row2 % 2 = 0 /\ stamp.col2 % 2 = 0) =>
        LET rad == stamp.stamp_size \div 2
        IN  (\/ ~WindowInside(image_shape[1], stamp.row2 \div 2, rad)
             \/ ~WindowInside(image_shape[2], stamp.col2 \div 2, rad))
                => stamp.status = "IndexError"

\* C10: a returned stamp for an object at a non-negative centre is, in every
\* band, square with side 2*(stamp_size//2)+1 for image and weight, cut at
\* the same window, with Jacobian centre (row - row_start, col - col_start)
\* and the object's centre pixel at (stamp_size//2, stamp_size//2).
C10_StampGeometry ==
    (stamp.status = "returned" /\ stamp.row2 >= 0 /\ stamp.col2 >= 0) =>
        LET rad  == stamp.stamp_size \div 2
            side == 2 * rad + 1
        IN  /\ \A b \in 1 .. Len(stamp.bands) :
                   /\ Cardinality(stamp.bands[b].image.rows) = side
                   /\ Cardinality(stamp.bands[b].image.cols) = side
                   /\ stamp.bands[b].weight = stamp.bands[b].image
                   /\ stamp.bands[b] = stamp.bands[1]
            /\ stamp.jacobian_cen2 =
                   <<stamp.row2 - 2 * stamp.bbox[1], stamp.col2 - 2 * stamp.bbox[3]>>
            /\ IntTrunc(stamp.row2) - stamp.bbox[1] = rad
            /\ IntTrunc(stamp.col2) - stamp.bbox[3] = rad

(* ========================= properties of get_flux ====================== *)

SentinelPair ==
    [flux |-> [t |-> "e9", n |-> FluxSentinel],
     flux_err |-> [t |-> "e9", n |-> FluxErrSentinel]]

\* the template cannot be calibrated: every pixel has a zero template value
\* or a zero weight (an all-zero template, or no weighted template energy)
DegenerateTemplate(wt, model) ==
    \A j \in 1 .. Len(model) : model[j] = 0 \/ wt[j] = 0

\* C13: get_flux returns the sentinel pair (-9999e9, 1e9) whenever the
\* template is all-zero or its weighted energy sum(w * template^2) is zero.
C13_DegenerateTemplateGivesSentinel ==
    (flux_out.called /\ DegenerateTemplate(flux_in.wt, flux_in.model)) =>
        flux_out.ret = SentinelPair

\* C14: the band result of an accepted band stores the flux get_flux
\* returned as total_flux and the flux_err it returned as total_flux_err.
C14_TotalFluxErrIsFluxErr ==
    (flux_out.called /\ reslist # << >> /\ Calibrated(reslist[Len(reslist)])) =>
        /\ reslist[Len(reslist)].total_flux = flux_out.ret.flux
        /\ reslist[Len(reslist)].total_flux_err = flux_out.ret.flux_err

(* ============== properties of Shredder with ModelSubtractor ============ *)

\* C15: a ModelSubtractor built for one object (1 divides every component
\* count) from a Shredder whose shred() completed with every band calibrated
\* finds the accessor and the fields it reads, is constructed without
\* raising, and holds one model image per object per band.
C15_SubtractorConstructsFromShredder ==
    (sub_status # "none" /\ sub.nobj = 1) =>
        /\ HasAttr(shredder, "result")
        /\ HasAttr(shredder.result, "band_gmix")
        /\ HasAttr(shredder.result, "band_gmix_convolved")
        /\ sub_status = "ok"
        /\ Len(sub.model_images) = NBands
        /\ \A b \in 1 .. NBands : Len(sub.model_images[b]) = sub.nobj

====
